---- MODULE Spec2Model ----
(***************************************************************************)
(* Model of compress_combine_pdfs.py: the pipeline driver main(), the     *)
(* recompressor adapter (find_ghostscript, compress_pdf), the input        *)
(* collector collect_pdfs and the combiner/splitter combine_pdfs.          *)
(*                                                                         *)
(* Representation choices                                                  *)
(*  - A path is a record [dir, name]; a name is a sequence of tokens, the  *)
(*    token "." being the dot character (every other token is a non-empty  *)
(*    run of non-dot characters).                                          *)
(*  - Python's float estimates (file_bytes / n_pages) are modelled as      *)
(*    exact rationals <<num, den>> in lowest terms; float rounding is not  *)
(*    modelled.                                                            *)
(*  - A page object of the document at position d of pdf_paths is <<d,k>>. *)
(***************************************************************************)
EXTENDS Integers, Sequences, FiniteSets, TLC

VARIABLES
    pc,               \* control position of the run
    fs,               \* file system: path -> [bytes, n_pages, valid]
    tmp_exists,       \* the TemporaryDirectory is present on disk
    argv,             \* parsed command line (args)
    worlddirs,        \* content of the directories named on the command line
    pdfs,             \* main: collected inputs
    gs_cmd,           \* main: located recompressor or "None"
    gs_env,           \* environment: the candidate executable that answers, or "None"
    probes,           \* executables probed by find_ghostscript, in order
    gs_args,          \* directives of the last compress_pdf invocation
    outcomes,         \* outcome of each compress_pdf invocation, in order
    compressed_pdfs,  \* main: the list handed to combine_pdfs
    i,                \* main: loop index (number of documents processed)
    exit_status,      \* process exit status, -1 while running
    caller,           \* who called combine_pdfs: "main" or "test"
    pdf_paths,        \* combine_pdfs parameter
    output_path,      \* combine_pdfs parameter
    max_size_mb,      \* combine_pdfs parameter, NoneMB when absent
    max_size_bytes,   \* combine_pdfs local
    d,                \* combine_pdfs: documents read so far
    pages_with_sizes, \* combine_pdfs local
    k,                \* combine_pdfs: pages grouped so far
    parts,            \* combine_pdfs local
    current_part,     \* combine_pdfs local
    current_size,     \* combine_pdfs local
    output_files,     \* combine_pdfs result
    written,          \* output files written: sequence of [path, pages]
    combine_calls     \* number of times combine_pdfs was entered

mainvars == <<argv, worlddirs, pdfs, gs_cmd, gs_env, probes, gs_args, outcomes,
              compressed_pdfs, i, exit_status, tmp_exists>>
combvars == <<pdf_paths, output_path, max_size_mb, max_size_bytes, d,
              pages_with_sizes, k, parts, current_part, current_size,
              output_files, written>>
vars == <<pc, fs, caller, combine_calls, mainvars, combvars>>

----------------------------------------------------------------------------
(* Bounds of the model *)
MaxDocs == 3
MaxPages == 2
MaxInputs == 2

(* Program constants *)
MiB == 1048576
MonoFloor == 300
DefaultDpi == 200

NoneMB == <<>>

----------------------------------------------------------------------------
(* Exact rational arithmetic standing for Python's float arithmetic *)

Abs(x) == IF x < 0 THEN -x ELSE x

RECURSIVE Gcd(_, _)
Gcd(a, b) == IF b = 0 THEN a ELSE Gcd(b, a % b)

Norm(r) == LET g == Gcd(Abs(r[1]), r[2]) IN <<r[1] \div g, r[2] \div g>>

RAdd(r, s) == Norm(<<r[1] * s[2] + s[1] * r[2], r[2] * s[2]>>)

\* r > c for a rational r and an integer c
RGtInt(r, c) == r[1] > c * r[2]

RZero == <<0, 1>>

\* int(x): truncation toward zero of the rational num/den (den > 0)
TruncDiv(num, den) == IF num >= 0 THEN num \div den ELSE -((-num) \div den)

----------------------------------------------------------------------------
(* Paths *)

Digit(n) == <<"0", "1", "2", "3", "4", "5", "6", "7", "8", "9">>[n + 1]

RECURSIVE Dec(_)
Dec(n) == IF n < 10 THEN <<Digit(n)>> ELSE Dec(n \div 10) \o <<Digit(n % 10)>>

RECURSIVE RFindDot(_, _)
RFindDot(name, j) ==
    IF j = 0 THEN 0
    ELSE IF name[j] = "." THEN j ELSE RFindDot(name, j - 1)

Suffix(name) ==
    LET j == RFindDot(name, Len(name))
    IN IF 1 < j /\ j < Len(name) THEN SubSeq(name, j, Len(name)) ELSE <<>>

Stem(name) ==
    LET j == RFindDot(name, Len(name))
    IN IF 1 < j /\ j < Len(name) THEN SubSeq(name, 1, j - 1) ELSE name

PartPath(out, n) ==
    [dir |-> out.dir,
     name |-> Stem(out.name) \o <<"_part">> \o Dec(n) \o Suffix(out.name)]

DirPath(dn, n) == [dir |-> dn, name |-> <<"sheet">> \o Dec(n) \o <<".", "pdf">>]

InPath(n) == DirPath("in", n)

\* f"{n:03d}"
Pad3(n) ==
    LET ds == Dec(n)
    IN IF Len(ds) >= 3 THEN ds
       ELSE IF Len(ds) = 2 THEN <<"0">> \o ds ELSE <<"0", "0">> \o ds

\* Path(tmpdir) / f"compressed_{n:03d}.pdf"
ScratchPath(n) == [dir |-> "tmp", name |-> <<"compressed_">> \o Pad3(n) \o <<".", "pdf">>]

----------------------------------------------------------------------------
(* combine_pdfs *)

Readable(p) == p \in DOMAIN fs /\ fs[p].valid

\* reader.pages of the document at position n of pdf_paths
ReaderPages(n) == [j \in 1..fs[pdf_paths[n]].n_pages |-> <<n, j>>]

\* est_page_bytes = file_bytes / n_pages if n_pages else 0
EstPageBytes(file_bytes, n_pages) ==
    IF n_pages # 0 THEN Norm(<<file_bytes, n_pages>>) ELSE RZero

\* max_size_bytes = int(max_size_mb * 1024 * 1024)
MaxSizeBytes(mb) == TruncDiv(mb[1] * MiB, mb[2])

RECURSIVE Flatten(_)
Flatten(ss) == IF ss = <<>> THEN <<>> ELSE Head(ss) \o Flatten(Tail(ss))

\* documents appended in reverse
RECURSIVE AppendAll_Reversed(_)
AppendAll_Reversed(n) ==
    IF n = 0 THEN <<>> ELSE ReaderPages(n) \o AppendAll_Reversed(n - 1)

\* the pages PdfWriter.append collects from the documents 1..n, in order
RECURSIVE AppendAll(_)
AppendAll(n) == IF n = 0 THEN <<>> ELSE AppendAll(n - 1) \o ReaderPages(n)

\* line 143 comparing the page alone with the ceiling
NeedNewPart_PageOnly(cp, cs, est, maxb) == cp # <<>> /\ RGtInt(est, maxb)

\* line 143 without the test that the current part is non-empty
NeedNewPart_NoEmptyCheck(cp, cs, est, maxb) == RGtInt(RAdd(cs, est), maxb)

\* line 143 with >= for >
NeedNewPart_Exclusive(cp, cs, est, maxb) ==
    cp # <<>> /\ RAdd(cs, est)[1] >= maxb * RAdd(cs, est)[2]

\* the test of line 143
NeedNewPart(cp, cs, est, maxb) == cp # <<>> /\ RGtInt(RAdd(cs, est), maxb)

\* line 145 opening the part without the page
FreshPart_Empty(page, est) == <<>>

\* the part a page opens (line 145)
FreshPart(page, est) == <<<<page, est>>>>

\* parts numbered from 0
PartPathFor_ZeroBased(out, n, total) ==
    IF total = 1 THEN out ELSE PartPath(out, n - 1)

\* the path part n of total is written to (lines 165-168)
PartPathFor(out, n, total) == IF total = 1 THEN out ELSE PartPath(out, n)

PagesOf(part) == [j \in 1..Len(part) |-> part[j][1]]

\* lines 114-120, every document readable
CombineAll ==
    /\ pc = "combine"
    /\ max_size_mb = NoneMB
    /\ \A n \in 1..Len(pdf_paths) : Readable(pdf_paths[n])
    /\ written' = Append(written, [path |-> output_path,
                                    pages |-> AppendAll(Len(pdf_paths))])
    /\ output_files' = <<output_path>>
    /\ pc' = "combine_ret"
    /\ UNCHANGED <<fs, caller, combine_calls, mainvars, pdf_paths, output_path,
                   max_size_mb, max_size_bytes, d, pages_with_sizes, k, parts,
                   current_part, current_size>>

\* lines 114-117, writer.append raising on an unreadable document
CombineAllRaises ==
    /\ pc = "combine"
    /\ max_size_mb = NoneMB
    /\ \E n \in 1..Len(pdf_paths) : ~Readable(pdf_paths[n])
    /\ pc' = "combine_raised"
    /\ UNCHANGED <<fs, caller, combine_calls, mainvars, combvars>>

\* line 122
SplitBegin ==
    /\ pc = "combine"
    /\ max_size_mb # NoneMB
    /\ max_size_bytes' = MaxSizeBytes(max_size_mb)
    /\ pc' = "read"
    /\ UNCHANGED <<fs, caller, combine_calls, mainvars, pdf_paths, output_path,
                   max_size_mb, d, pages_with_sizes, k, parts, current_part,
                   current_size, output_files, written>>

\* lines 126-132, one document
ReadDoc ==
    /\ pc = "read"
    /\ d < Len(pdf_paths)
    /\ Readable(pdf_paths[d + 1])
    /\ LET f == fs[pdf_paths[d + 1]]
           est == EstPageBytes(f.bytes, f.n_pages)
           pgs == ReaderPages(d + 1)
       IN pages_with_sizes' = pages_with_sizes \o
                                [j \in 1..Len(pgs) |-> <<pgs[j], est>>]
    /\ d' = d + 1
    /\ UNCHANGED <<pc, fs, caller, combine_calls, mainvars, pdf_paths,
                   output_path, max_size_mb, max_size_bytes, k, parts,
                   current_part, current_size, output_files, written>>

\* lines 127-128 raising: stat() of a missing file, PdfReader of a malformed one
ReadDocRaises ==
    /\ pc = "read"
    /\ d < Len(pdf_paths)
    /\ ~Readable(pdf_paths[d + 1])
    /\ pc' = "combine_raised"
    /\ UNCHANGED <<fs, caller, combine_calls, mainvars, combvars>>

\* lines 134-135
ReadDoneEmpty ==
    /\ pc = "read"
    /\ d = Len(pdf_paths)
    /\ pages_with_sizes = <<>>
    /\ output_files' = <<>>
    /\ pc' = "combine_ret"
    /\ UNCHANGED <<fs, caller, combine_calls, mainvars, pdf_paths, output_path,
                   max_size_mb, max_size_bytes, d, pages_with_sizes, k, parts,
                   current_part, current_size, written>>

\* lines 138-140
ReadDone ==
    /\ pc = "read"
    /\ d = Len(pdf_paths)
    /\ pages_with_sizes # <<>>
    /\ parts' = <<>>
    /\ current_part' = <<>>
    /\ current_size' = RZero
    /\ pc' = "group"
    /\ UNCHANGED <<fs, caller, combine_calls, mainvars, pdf_paths, output_path,
                   max_size_mb, max_size_bytes, d, pages_with_sizes, k,
                   output_files, written>>

\* lines 142-149, one page
GroupPage ==
    /\ pc = "group"
    /\ k < Len(pages_with_sizes)
    /\ LET page == pages_with_sizes[k + 1][1]
           est_bytes == pages_with_sizes[k + 1][2]
       IN IF NeedNewPart(current_part, current_size, est_bytes, max_size_bytes)
          THEN /\ parts' = Append(parts, current_part)
               /\ current_part' = FreshPart(page, est_bytes)
               /\ current_size' = est_bytes
          ELSE /\ parts' = parts
               /\ current_part' = Append(current_part, <<page, est_bytes>>)
               /\ current_size' = RAdd(current_size, est_bytes)
    /\ k' = k + 1
    /\ UNCHANGED <<pc, fs, caller, combine_calls, mainvars, pdf_paths,
                   output_path, max_size_mb, max_size_bytes, d,
                   pages_with_sizes, output_files, written>>

\* lines 151-158
GroupFinish ==
    /\ pc = "group"
    /\ k = Len(pages_with_sizes)
    /\ parts' = IF current_part # <<>> THEN Append(parts, current_part) ELSE parts
    /\ output_files' = <<>>
    /\ pc' = "write"
    /\ UNCHANGED <<fs, caller, combine_calls, mainvars, pdf_paths, output_path,
                   max_size_mb, max_size_bytes, d, pages_with_sizes, k,
                   current_part, current_size, written>>

\* lines 160-172, one part
WritePart ==
    /\ pc = "write"
    /\ Len(output_files) < Len(parts)
    /\ LET n == Len(output_files) + 1
           part_path == PartPathFor(output_path, n, Len(parts))
       IN /\ written' = Append(written, [path |-> part_path,
                                         pages |-> PagesOf(parts[n])])
          /\ output_files' = Append(output_files, part_path)
    /\ UNCHANGED <<pc, fs, caller, combine_calls, mainvars, pdf_paths,
                   output_path, max_size_mb, max_size_bytes, d,
                   pages_with_sizes, k, parts, current_part, current_size>>

\* line 174
SplitReturn ==
    /\ pc = "write"
    /\ Len(output_files) = Len(parts)
    /\ pc' = "combine_ret"
    /\ UNCHANGED <<fs, caller, combine_calls, mainvars, combvars>>


----------------------------------------------------------------------------
(* External recompressor adapter *)

GS_PRESETS == [screen |-> "/screen", ebook |-> "/ebook",
               printer |-> "/printer", prepress |-> "/prepress"]

Candidates == <<"gs", "gswin64c", "gswin32c">>

\* find_ghostscript: the candidates probed, in order, when `env` is the one
\* executable that answers the version probe ("None": nothing answers)
RECURSIVE ProbedUpTo(_, _)
ProbedUpTo(env, n) ==
    IF n > Len(Candidates) THEN <<>>
    ELSE IF Candidates[n] = env THEN <<Candidates[n]>>
    ELSE <<Candidates[n]>> \o ProbedUpTo(env, n + 1)

FindGhostscript(env) ==
    LET pr == ProbedUpTo(env, 1)
    IN IF pr # <<>> /\ pr[Len(pr)] = env THEN env ELSE "None"

Max(a, b) == IF a >= b THEN a ELSE b

Preset(quality) ==
    IF quality \in DOMAIN GS_PRESETS THEN GS_PRESETS[quality] ELSE "/ebook"

\* min for max
MonoImageResolution_Capped(dpi) == IF dpi <= MonoFloor THEN dpi ELSE MonoFloor

ColorImageResolution(dpi) == dpi
GrayImageResolution(dpi) == dpi
MonoImageResolution(dpi) == Max(dpi, MonoFloor)

\* the argument list of lines 47-77
GsArgs(cmd, input_path, out, dpi, quality) ==
    [cmd |-> cmd,
     device |-> "pdfwrite",
     pdfsettings |-> Preset(quality),
     downsample_color |-> TRUE,
     color_res |-> ColorImageResolution(dpi),
     color_type |-> "/Bicubic",
     downsample_gray |-> TRUE,
     gray_res |-> GrayImageResolution(dpi),
     gray_type |-> "/Bicubic",
     downsample_mono |-> TRUE,
     mono_res |-> MonoImageResolution(dpi),
     color_filter |-> "/DCTEncode",
     gray_filter |-> "/DCTEncode",
     detect_duplicates |-> TRUE,
     subset_fonts |-> TRUE,
     output_file |-> out,
     input_file |-> input_path]

NoArgs == GsArgs("None", InPath(0), InPath(0), 0, "none")

\* sizes a recompressed copy may have
ScratchSizes == {2, 5}

\* compress_pdf with the external process ending as `outcome`:
\* "ok" (exit 0, output written), "nonzero" (non-zero exit), "raise"
\* (subprocess.run raises, e.g. the executable vanished)
CompressPdf(cmd, input_path, out, dpi, quality, outcome) ==
    /\ gs_args' = GsArgs(cmd, input_path, out, dpi, quality)
    /\ IF outcome = "ok"
       THEN \E b \in ScratchSizes :
              fs' = (out :> [bytes |-> b, n_pages |-> fs[input_path].n_pages,
                             valid |-> TRUE]) @@ fs
       ELSE fs' = fs

----------------------------------------------------------------------------
(* Input collector *)

SetMin(S) == CHOOSE x \in S : \A y \in S : x <= y

\* sorted(p.glob("*.pdf")) for a directory holding the files numbered in S;
\* the names sheet<n>.pdf, n < 10, sort by n
RECURSIVE SortedGlob(_, _)
SortedGlob(dn, S) ==
    IF S = {} THEN <<>>
    ELSE <<DirPath(dn, SetMin(S))>> \o SortedGlob(dn, S \ {SetMin(S)})

\* collect_pdfs over the first n items
RECURSIVE CollectPdfs(_, _)
CollectPdfs(inputs, n) ==
    IF n = 0 THEN <<>>
    ELSE LET item == inputs[n]
             rest == CollectPdfs(inputs, n - 1)
         IN IF item.kind = "dir" THEN rest \o SortedGlob(item.id, worlddirs[item.id])
            ELSE IF item.kind = "file" THEN Append(rest, DirPath("in", item.n))
            ELSE rest

----------------------------------------------------------------------------
(* Pipeline driver main() *)

\* the empty-input test never firing
NoInputs_Never(ps) == FALSE

\* the test of line 211
NoInputs(ps) == ps = <<>>

\* the scratch copy used whatever compress_pdf returned
ChosenPath_IgnoresFailure(attempted, ok, pdf, compressed_path) ==
    IF attempted THEN compressed_path ELSE pdf

\* the entry main appends to compressed_pdfs (lines 239-249)
ChosenPath(attempted, ok, pdf, compressed_path) ==
    IF attempted /\ ok THEN compressed_path ELSE pdf

\* cleanup on the normal path only
TmpAfterExit_LeakOnError(raising) == raising

\* TemporaryDirectory.__exit__ (line 233): is the directory still present
\* after the with block is left, normally or by a propagating exception
TmpAfterExit(raising) == FALSE

\* the files left once the with block is left
FsAfterExit(raising) ==
    IF TmpAfterExit(raising) THEN fs
    ELSE [p \in {q \in DOMAIN fs : q.dir # "tmp"} |-> fs[p]]

ResetCombine ==
    /\ max_size_bytes' = 0
    /\ d' = 0
    /\ pages_with_sizes' = <<>>
    /\ k' = 0
    /\ parts' = <<>>
    /\ current_part' = <<>>
    /\ current_size' = RZero
    /\ output_files' = <<>>

\* lines 210-213, nothing collected
MainNoInputs ==
    /\ pc = "start"
    /\ pdfs' = CollectPdfs(argv.inputs, Len(argv.inputs))
    /\ NoInputs(pdfs')
    /\ exit_status' = 1
    /\ pc' = "exited"
    /\ UNCHANGED <<fs, caller, combine_calls, argv, worlddirs, gs_cmd, gs_env,
                   probes, gs_args, outcomes, compressed_pdfs, i, tmp_exists,
                   combvars>>

\* lines 210-222
MainCollect ==
    /\ pc = "start"
    /\ pdfs' = CollectPdfs(argv.inputs, Len(argv.inputs))
    /\ ~NoInputs(pdfs')
    /\ pc' = "find_gs"
    /\ UNCHANGED <<fs, caller, combine_calls, argv, worlddirs, gs_cmd, gs_env,
                   probes, gs_args, outcomes, compressed_pdfs, i, exit_status,
                   tmp_exists, combvars>>

\* lines 225-229 with --no-compress
MainSkipGs ==
    /\ pc = "find_gs"
    /\ argv.no_compress
    /\ gs_cmd' = "None"
    /\ pc' = "enter_tmp"
    /\ UNCHANGED <<fs, caller, combine_calls, argv, worlddirs, pdfs, gs_env,
                   probes, gs_args, outcomes, compressed_pdfs, i, exit_status,
                   tmp_exists, combvars>>

\* lines 225-229
MainFindGs ==
    /\ pc = "find_gs"
    /\ ~argv.no_compress
    /\ probes' = probes \o ProbedUpTo(gs_env, 1)
    /\ gs_cmd' = FindGhostscript(gs_env)
    /\ pc' = "enter_tmp"
    /\ UNCHANGED <<fs, caller, combine_calls, argv, worlddirs, pdfs, gs_env,
                   gs_args, outcomes, compressed_pdfs, i, exit_status,
                   tmp_exists, combvars>>

\* lines 232-233
MainEnterTmp ==
    /\ pc = "enter_tmp"
    /\ compressed_pdfs' = <<>>
    /\ tmp_exists' = TRUE
    /\ i' = 0
    /\ pc' = "loop"
    /\ UNCHANGED <<fs, caller, combine_calls, argv, worlddirs, pdfs, gs_cmd,
                   gs_env, probes, gs_args, outcomes, exit_status, combvars>>

\* lines 234-247, one document, the external process exiting
MainCompress ==
    /\ pc = "loop"
    /\ i < Len(pdfs)
    /\ gs_cmd # "None" /\ ~argv.no_compress
    /\ \E outcome \in {"ok", "nonzero"} :
         /\ CompressPdf(gs_cmd, pdfs[i + 1], ScratchPath(i + 1), argv.dpi,
                        argv.quality, outcome)
         /\ outcomes' = Append(outcomes, outcome)
         /\ compressed_pdfs' = Append(compressed_pdfs,
                ChosenPath(TRUE, outcome = "ok", pdfs[i + 1], ScratchPath(i + 1)))
    /\ i' = i + 1
    /\ UNCHANGED <<pc, caller, combine_calls, argv, worlddirs, pdfs, gs_cmd,
                   gs_env, probes, exit_status, tmp_exists, combvars>>

\* lines 234-239, subprocess.run raising
MainCompressRaises ==
    /\ pc = "loop"
    /\ i < Len(pdfs)
    /\ gs_cmd # "None" /\ ~argv.no_compress
    /\ CompressPdf(gs_cmd, pdfs[i + 1], ScratchPath(i + 1), argv.dpi,
                   argv.quality, "raise")
    /\ outcomes' = Append(outcomes, "raise")
    /\ pc' = "main_raised"
    /\ UNCHANGED <<caller, combine_calls, argv, worlddirs, pdfs, gs_cmd, gs_env,
                   probes, compressed_pdfs, i, exit_status, tmp_exists, combvars>>

\* lines 248-249
MainKeepOriginal ==
    /\ pc = "loop"
    /\ i < Len(pdfs)
    /\ ~(gs_cmd # "None" /\ ~argv.no_compress)
    /\ outcomes' = Append(outcomes, "skipped")
    /\ compressed_pdfs' = Append(compressed_pdfs,
           ChosenPath(FALSE, FALSE, pdfs[i + 1], ScratchPath(i + 1)))
    /\ i' = i + 1
    /\ UNCHANGED <<pc, fs, caller, combine_calls, argv, worlddirs, pdfs, gs_cmd,
                   gs_env, probes, gs_args, exit_status, tmp_exists, combvars>>

\* line 257, the call
MainCallCombine ==
    /\ pc = "loop"
    /\ i = Len(pdfs)
    /\ pdf_paths' = compressed_pdfs
    /\ output_path' = argv.output
    /\ max_size_mb' = argv.max_size
    /\ ResetCombine
    /\ caller' = "main"
    /\ combine_calls' = combine_calls + 1
    /\ pc' = "combine"
    /\ UNCHANGED <<fs, mainvars, written>>

\* leaving the with block after combine_pdfs returned
MainLeaveTmp ==
    /\ pc = "combine_ret"
    /\ caller = "main"
    /\ tmp_exists' = TmpAfterExit(FALSE)
    /\ fs' = FsAfterExit(FALSE)
    /\ pc' = "summary"
    /\ UNCHANGED <<caller, combine_calls, argv, worlddirs, pdfs, gs_cmd, gs_env,
                   probes, gs_args, outcomes, compressed_pdfs, i, exit_status,
                   combvars>>

\* lines 259-275
MainSummary ==
    /\ pc = "summary"
    /\ exit_status' = 0
    /\ pc' = "exited"
    /\ UNCHANGED <<fs, caller, combine_calls, argv, worlddirs, pdfs, gs_cmd,
                   gs_env, probes, gs_args, outcomes, compressed_pdfs, i,
                   tmp_exists, combvars>>

\* an exception leaving the with block and ending the process
MainUnwind ==
    /\ pc \in {"main_raised", "combine_raised"}
    /\ caller = "main"
    /\ tmp_exists' = TmpAfterExit(TRUE)
    /\ fs' = FsAfterExit(TRUE)
    /\ exit_status' = 1
    /\ pc' = "exited"
    /\ UNCHANGED <<caller, combine_calls, argv, worlddirs, pdfs, gs_cmd, gs_env,
                   probes, gs_args, outcomes, compressed_pdfs, i, combvars>>


----------------------------------------------------------------------------
(* compress_pdf called on its own *)

TestCompress ==
    /\ pc = "compress_call"
    /\ \E outcome \in {"ok", "nonzero", "raise"} :
         /\ CompressPdf(gs_cmd, pdfs[1], ScratchPath(1), argv.dpi, argv.quality,
                        outcome)
         /\ outcomes' = Append(outcomes, outcome)
         /\ pc' = IF outcome = "ok" THEN "compress_true"
                  ELSE IF outcome = "nonzero" THEN "compress_false"
                  ELSE "compress_raised"
    /\ UNCHANGED <<caller, combine_calls, argv, worlddirs, pdfs, gs_cmd, gs_env,
                   probes, compressed_pdfs, i, exit_status, tmp_exists, combvars>>

----------------------------------------------------------------------------
(* Initial states *)

SeqsUpTo(S, n) == UNION {[1..m -> S] : m \in 0..n}

OutPath(name) == [dir |-> "out", name |-> name]

DefaultOutput == OutPath(<<"combined_compressed", ".", "pdf">>)

OutputSet == {DefaultOutput, OutPath(<<"a", ".", "tar", ".", "gz">>),
              OutPath(<<".", "hidden">>)}

Sizes == {4, 6}

DocSet == {[bytes |-> b, n_pages |-> n, valid |-> TRUE] :
              b \in Sizes, n \in 0..MaxPages}
          \cup {[bytes |-> 1, n_pages |-> 0, valid |-> FALSE]}

Ceilings == {NoneMB, <<0, 1>>, <<-3, 2 * MiB>>, <<11, 2 * MiB>>, <<6, MiB>>,
             <<10, MiB>>}

\* the documents of the worked example: 40MB/3 pages, 20MB/2 pages, 90MB/1 page
ScenarioDocs == <<[bytes |-> 40 * MiB, n_pages |-> 3, valid |-> TRUE],
                  [bytes |-> 20 * MiB, n_pages |-> 2, valid |-> TRUE],
                  [bytes |-> 90 * MiB, n_pages |-> 1, valid |-> TRUE]>>
ScenarioCeiling == <<50, 1>>

FsOf(docs) ==
    [p \in {InPath(j) : j \in 1..Len(docs)} |->
        docs[CHOOSE j \in 1..Len(docs) : InPath(j) = p]]

NoArgv == [inputs |-> <<>>, output |-> DefaultOutput, dpi |-> DefaultDpi,
           quality |-> "ebook", no_compress |-> FALSE, max_size |-> NoneMB]

InitCombineLocals ==
    /\ max_size_bytes = 0
    /\ d = 0
    /\ pages_with_sizes = <<>>
    /\ k = 0
    /\ parts = <<>>
    /\ current_part = <<>>
    /\ current_size = RZero
    /\ output_files = <<>>
    /\ written = <<>>

InitMainLocals ==
    /\ pdfs = <<>>
    /\ gs_cmd = "None"
    /\ probes = <<>>
    /\ gs_args = NoArgs
    /\ outcomes = <<>>
    /\ compressed_pdfs = <<>>
    /\ i = 0
    /\ exit_status = -1
    /\ tmp_exists = FALSE

\* combine_pdfs called directly on a list of documents
InitCombine ==
    /\ pc = "combine"
    /\ caller = "test"
    /\ combine_calls = 1
    /\ \E docs \in SeqsUpTo(DocSet, MaxDocs) \cup {ScenarioDocs} :
         /\ fs = FsOf(docs)
         /\ pdf_paths = [j \in 1..Len(docs) |-> InPath(j)]
         /\ IF docs = ScenarioDocs
            THEN max_size_mb = ScenarioCeiling /\ output_path = DefaultOutput
            ELSE max_size_mb \in Ceilings /\ output_path \in OutputSet
    /\ argv = NoArgv
    /\ worlddirs = [dn \in {} |-> {}]
    /\ gs_env = "None"
    /\ InitMainLocals
    /\ InitCombineLocals

\* the files main() finds on disk
WorldFiles ==
    (DirPath("in", 1) :> [bytes |-> 6, n_pages |-> 2, valid |-> TRUE])
    @@ (DirPath("in", 2) :> [bytes |-> 3, n_pages |-> 0, valid |-> FALSE])
    @@ (DirPath("dirA", 1) :> [bytes |-> 4, n_pages |-> 1, valid |-> TRUE])
    @@ (DirPath("dirA", 3) :> [bytes |-> 2, n_pages |-> 0, valid |-> TRUE])

WorldDirs == [dn \in {"dirA", "dirE"} |-> IF dn = "dirA" THEN {3, 1} ELSE {}]

Items == {[kind |-> "file", id |-> "in", n |-> 1],
          [kind |-> "file", id |-> "in", n |-> 2],
          [kind |-> "dir", id |-> "dirA", n |-> 0],
          [kind |-> "dir", id |-> "dirE", n |-> 0],
          [kind |-> "other", id |-> "", n |-> 0]}

MainDpis == {150, 600}
MainCeilings == {NoneMB, <<5, MiB>>}

InitMain ==
    /\ pc = "start"
    /\ caller = "main"
    /\ combine_calls = 0
    /\ fs = WorldFiles
    /\ worlddirs = WorldDirs
    /\ \E inputs \in SeqsUpTo(Items, MaxInputs) \ {<<>>} :
       \E dpi \in MainDpis, nc \in BOOLEAN, ms \in MainCeilings :
         argv = [inputs |-> inputs, output |-> DefaultOutput, dpi |-> dpi,
                 quality |-> "ebook", no_compress |-> nc, max_size |-> ms]
    /\ gs_env \in {"None", "gs", "gswin64c", "gswin32c"}
    /\ pdf_paths = <<>>
    /\ output_path = DefaultOutput
    /\ max_size_mb = NoneMB
    /\ InitMainLocals
    /\ InitCombineLocals

DpiSet == {72, 150, 200, 299, 300, 301, 600}
QualitySet == DOMAIN GS_PRESETS \cup {"draft"}

InitCompress ==
    /\ pc = "compress_call"
    /\ caller = "test"
    /\ combine_calls = 0
    /\ \E docs \in [1..1 -> DocSet] :
         /\ fs = FsOf(docs)
         /\ pdfs = <<InPath(1)>>
    /\ \E dpi \in DpiSet, q \in QualitySet :
         argv = [inputs |-> <<>>, output |-> DefaultOutput, dpi |-> dpi,
                 quality |-> q, no_compress |-> FALSE, max_size |-> NoneMB]
    /\ worlddirs = [dn \in {} |-> {}]
    /\ gs_env \in {"gs", "gswin64c", "gswin32c"}
    /\ gs_cmd = gs_env
    /\ probes = <<>>
    /\ gs_args = NoArgs
    /\ outcomes = <<>>
    /\ compressed_pdfs = <<>>
    /\ i = 0
    /\ exit_status = -1
    /\ tmp_exists = TRUE
    /\ pdf_paths = <<>>
    /\ output_path = DefaultOutput
    /\ max_size_mb = NoneMB
    /\ InitCombineLocals

----------------------------------------------------------------------------
(* Specifications *)

NextCombine ==
    \/ CombineAll \/ CombineAllRaises \/ SplitBegin \/ ReadDoc \/ ReadDocRaises
    \/ ReadDoneEmpty \/ ReadDone \/ GroupPage \/ GroupFinish \/ WritePart
    \/ SplitReturn

Next ==
    \/ MainNoInputs \/ MainCollect \/ MainSkipGs \/ MainFindGs \/ MainEnterTmp
    \/ MainCompress \/ MainCompressRaises \/ MainKeepOriginal
    \/ MainCallCombine \/ MainLeaveTmp \/ MainSummary \/ MainUnwind
    \/ CombineAll \/ CombineAllRaises \/ SplitBegin \/ ReadDoc \/ ReadDocRaises
    \/ ReadDoneEmpty \/ ReadDone \/ GroupPage \/ GroupFinish \/ WritePart
    \/ SplitReturn

NextCompress == TestCompress

\* the whole run of main()
Spec == InitMain /\ [][Next]_vars

\* combine_pdfs on every bounded list of documents
SpecCombine == InitCombine /\ [][NextCombine]_vars

\* compress_pdf on every resolution and preset
SpecCompress == InitCompress /\ [][NextCompress]_vars

----------------------------------------------------------------------------
(* Vocabulary of the properties *)

\* the estimate of a page, from the file it came from: file size / page count
PageCost(page) ==
    LET f == fs[pdf_paths[page[1]]] IN Norm(<<f.bytes, f.n_pages>>)

RECURSIVE CostOfPages(_, _)
CostOfPages(part, n) ==
    IF n = 0 THEN RZero
    ELSE RAdd(CostOfPages(part, n - 1), PageCost(part[n][1]))

GroupCost(part) == CostOfPages(part, Len(part))

\* every page of every document of pdf_paths
PageSet == {pg \in (1..Len(pdf_paths)) \X (1..(MaxPages + 1)) :
              pg[2] <= fs[pdf_paths[pg[1]]].n_pages}

PageBefore(a, b) == a[1] < b[1] \/ (a[1] = b[1] /\ a[2] < b[2])

\* s lists every page exactly once, documents in input order, pages in page order
IsInputOrder(s) ==
    /\ {s[x] : x \in DOMAIN s} = PageSet
    /\ \A x, y \in DOMAIN s : x < y => PageBefore(s[x], s[y])

WrittenPages == Flatten([n \in 1..Len(written) |-> written[n].pages])

SplitMode == max_size_mb # NoneMB

Grouped == pc \in {"write", "combine_ret"} /\ SplitMode

Returned == pc = "combine_ret"

\* C1: in split mode every group's estimated cost is at most the ceiling,
\* except a group of exactly one page whose own estimate exceeds the ceiling
C1_GroupsWithinCeiling ==
    Grouped =>
      \A g \in 1..Len(parts) :
         \/ ~RGtInt(GroupCost(parts[g]), max_size_bytes)
         \/ /\ Len(parts[g]) = 1
            /\ RGtInt(PageCost(parts[g][1][1]), max_size_bytes)

C1_Witness ==
    /\ Returned /\ SplitMode
    /\ \E g, h \in 1..Len(parts) :
         /\ Len(parts[g]) >= 2
         /\ GroupCost(parts[g]) = <<max_size_bytes, 1>>
         /\ Len(parts[h]) = 1
         /\ RGtInt(GroupCost(parts[h]), max_size_bytes)

\* C2: in split mode the written groups, concatenated in group order, are
\* exactly the pages of all documents in document order and page order
C2_PagesPreserved ==
    (Returned /\ SplitMode) =>
      /\ Len(written) = Len(parts)
      /\ \A n \in 1..Len(written) : written[n].pages = PagesOf(parts[n])
      /\ IsInputOrder(WrittenPages)

C2_Witness ==
    /\ Returned /\ SplitMode
    /\ Len(written) >= 3
    /\ \E n \in 1..Len(written) :
         \E x, y \in DOMAIN written[n].pages :
            written[n].pages[x][1] # written[n].pages[y][1]

\* C3: without a ceiling exactly one file is written, at output_path, holding
\* all pages of all documents in input order
C3_NoCeilingSingleGroup ==
    (Returned /\ ~SplitMode) =>
      /\ output_files = <<output_path>>
      /\ Len(written) = 1
      /\ written[1].path = output_path
      /\ IsInputOrder(written[1].pages)

C3_Witness ==
    /\ Returned /\ ~SplitMode
    /\ Len(pdf_paths) = 3
    /\ \A n \in 1..3 : fs[pdf_paths[n]].n_pages = 2
    /\ Len(written[1].pages) = 6

\* C7: one written path per group, in group order; a single group goes to
\* output_path, k > 1 groups go to <stem>_part<N><suffix>, N = 1..k, beside
\* output_path, which is then not written
C7_OutputNaming ==
    Returned =>
      /\ Len(output_files) = Len(written)
      /\ SplitMode => Len(output_files) = Len(parts)
      /\ \A n \in 1..Len(written) : written[n].path = output_files[n]
      /\ Len(output_files) = 1 => output_files[1] = output_path
      /\ Len(output_files) > 1 =>
           /\ \A n \in 1..Len(output_files) :
                output_files[n] =
                  [dir |-> output_path.dir,
                   name |-> Stem(output_path.name) \o <<"_part">> \o Dec(n)
                              \o Suffix(output_path.name)]
           /\ \A n \in 1..Len(written) : written[n].path # output_path

C7_Witness ==
    /\ Returned /\ SplitMode
    /\ Len(output_files) = 3
    /\ output_path.name = <<"a", ".", "tar", ".", "gz">>
    /\ output_files[3].name = <<"a", ".", "tar", "_part", "3", ".", "gz">>

\* C8 as stated: no group is ever empty, and zero total pages gives zero
\* groups and no written file, with or without a ceiling
C8_Original ==
    Returned =>
      /\ \A n \in 1..Len(written) : written[n].pages # <<>>
      /\ PageSet = {} => (output_files = <<>> /\ written = <<>>)

\* C8 amended: when a ceiling is given, no group is empty, a zero-page
\* document contributes no page unit, and zero total pages gives zero groups
\* and no written file
C8_SplitNoEmptyGroup ==
    (SplitMode /\ pc \in {"read", "group", "write", "combine_ret"}) =>
      /\ \A g \in 1..Len(parts) : parts[g] # <<>>
      /\ \A n \in 1..Len(written) : written[n].pages # <<>>
      /\ \A x \in DOMAIN pages_with_sizes :
            fs[pdf_paths[pages_with_sizes[x][1][1]]].n_pages > 0
      /\ (Returned /\ PageSet = {}) =>
            (parts = <<>> /\ output_files = <<>> /\ written = <<>>)

C8_Witness ==
    /\ Returned /\ SplitMode
    /\ Len(pdf_paths) = 3
    /\ fs[pdf_paths[1]].n_pages = 0
    /\ fs[pdf_paths[2]].n_pages = 1
    /\ fs[pdf_paths[3]].n_pages = 0
    /\ RGtInt(PageCost(<<2, 1>>), max_size_bytes)
    /\ Len(written) = 1

\* C10: the grouping is the greedy one with an inclusive boundary: inside a
\* group every prefix of two or more pages costs at most C, no group is
\* empty, the cost of a group plus the first page of the next exceeds C, and
\* the worked example gives [d1p1,d1p2,d1p3,d2p1], [d2p2], [d3p1]
C10_GreedyInclusive ==
    Grouped =>
      /\ \A g \in 1..Len(parts) :
           /\ parts[g] # <<>>
           /\ \A n \in 2..Len(parts[g]) :
                ~RGtInt(CostOfPages(parts[g], n), max_size_bytes)
      /\ \A g \in 1..(Len(parts) - 1) :
           RGtInt(RAdd(GroupCost(parts[g]), PageCost(parts[g + 1][1][1])),
                  max_size_bytes)
      /\ (Len(pdf_paths) = 3 /\ [n \in 1..3 |-> fs[pdf_paths[n]]] = ScenarioDocs
          /\ max_size_mb = ScenarioCeiling) =>
           [g \in 1..Len(parts) |-> PagesOf(parts[g])] =
             << <<<<1, 1>>, <<1, 2>>, <<1, 3>>, <<2, 1>>>>,
                <<<<2, 2>>>>,
                <<<<3, 1>>>> >>

C10_Witness ==
    /\ Returned
    /\ max_size_mb = ScenarioCeiling
    /\ [n \in 1..Len(pdf_paths) |-> fs[pdf_paths[n]]] = ScenarioDocs
    /\ Len(written) = 3
    /\ GroupCost(parts[1]) = <<50 * MiB, 1>>

Collected == CollectPdfs(argv.inputs, Len(argv.inputs))

TmpFiles == {p \in DOMAIN fs : p.dir = "tmp"}

\* C4: whatever the recompression outcomes (success or non-zero exit), the
\* run is not aborted and the list handed to combine_pdfs has the length and
\* order of the collected inputs: position j is the scratch copy of input j
\* when its recompression succeeded and the original input j otherwise
C4_FallbackKeepsOrder ==
    /\ \A j \in 1..Len(compressed_pdfs) :
         /\ compressed_pdfs[j] =
              IF outcomes[j] = "ok"
              THEN [dir |-> "tmp",
                    name |-> <<"compressed_", "0", "0", Digit(j), ".", "pdf">>]
              ELSE pdfs[j]
         /\ (gs_cmd = "None" \/ argv.no_compress) => compressed_pdfs[j] = pdfs[j]
    /\ (\A j \in 1..Len(outcomes) : outcomes[j] # "raise") =>
         /\ pc # "main_raised"
         /\ Len(compressed_pdfs) = i
         /\ (pc = "exited" /\ pdfs # <<>>) => combine_calls = 1
    /\ (caller = "main" /\ combine_calls = 1) =>
         /\ pdf_paths = compressed_pdfs
         /\ Len(pdf_paths) = Len(pdfs)

C4_Witness ==
    /\ pc = "combine"
    /\ caller = "main"
    /\ Len(pdfs) >= 3
    /\ outcomes[1] = "nonzero"
    /\ outcomes[2] = "ok"
    /\ outcomes[3] = "nonzero"
    /\ pdf_paths = <<pdfs[1], ScratchPath(2), pdfs[3]>> \o SubSeq(pdf_paths, 4, Len(pdf_paths))

\* C5: no run that created the scratch directory ends with the directory or
\* a temporary recompressed file still present
C5_ScratchRemoved ==
    pc = "exited" => (~tmp_exists /\ TmpFiles = {})

C5_Witness ==
    /\ pc = "exited"
    /\ exit_status = 1
    /\ combine_calls = 1
    /\ \E j \in 1..Len(outcomes) : outcomes[j] = "ok"
    /\ ~tmp_exists

\* C6: when nothing is collected the run ends with a non-zero status before
\* any processing: no probe, no recompression, no scratch directory, no call
\* of combine_pdfs, no output file
C6_NoInputsAbort ==
    (Collected = <<>> /\ pc # "start") =>
      /\ pc = "exited"
      /\ exit_status # 0
      /\ probes = <<>>
      /\ outcomes = <<>>
      /\ gs_args = NoArgs
      /\ ~tmp_exists
      /\ TmpFiles = {}
      /\ combine_calls = 0
      /\ written = <<>>

C6_Witness ==
    /\ pc = "exited"
    /\ Len(argv.inputs) = 2
    /\ argv.inputs[1].kind = "dir"
    /\ argv.inputs[2].kind = "other"
    /\ ~argv.no_compress
    /\ gs_env = "gs"
    /\ pdfs = <<>>
    /\ exit_status = 1

Called == pc \in {"compress_true", "compress_false", "compress_raised"}

\* C9 as stated: colour, grayscale and mono target resolutions all equal the
\* requested dpi
C9_Original ==
    Called =>
      /\ gs_args.color_res = argv.dpi
      /\ gs_args.gray_res = argv.dpi
      /\ gs_args.mono_res = argv.dpi

\* C9 amended: colour and grayscale target resolutions equal the requested
\* dpi; the mono target resolution is the requested dpi but never below 300
C9_Resolutions ==
    Called =>
      /\ gs_args.color_res = argv.dpi
      /\ gs_args.gray_res = argv.dpi
      /\ gs_args.mono_res = (IF argv.dpi < 300 THEN 300 ELSE argv.dpi)
      /\ gs_args.downsample_color /\ gs_args.downsample_gray
      /\ gs_args.downsample_mono

C9_Witness ==
    /\ Called
    /\ argv.dpi = 150
    /\ argv.quality = "printer"
    /\ gs_args.color_res = 150
    /\ gs_args.mono_res = 300

====
